---- MODULE Spec2Model ----
(***************************************************************************)
(* guid-create: the GUID value type of src/src/lib.rs.                     *)
(*                                                                         *)
(* A GUID is sixteen bytes.  Strings are modelled as the sequence of their *)
(* UTF-8 bytes (GUID::parse works on guid.as_bytes()), so a character is a *)
(* number in 0..255: '0' = 48, '9' = 57, 'A' = 65, 'F' = 70, 'a' = 97,     *)
(* 'f' = 102, '-' = 45.  Rust's 0-based data[i] is data[i + 1] here.       *)
(***************************************************************************)
EXTENDS Integers, Sequences, FiniteSets

VARIABLES pc, guid, made, text, origin, res, fields, win

vars == <<pc, guid, made, text, origin, res, fields, win>>

-----------------------------------------------------------------------------
(* Bounds of the model.                                                    *)

\* Longest string of arbitrary characters handed to parse, in characters.
MaxRawLen == 3

\* Longest tail appended to a string that parsed, in characters.
MaxTail == 1

-----------------------------------------------------------------------------
(* Values.                                                                 *)

Byte == 0..255

\* struct GUID { data: [u8; 16] }
GUID(data) == [data |-> data]

NoGuid == [data |-> <<>>]

\* #[derive(PartialEq, Eq)] on GUID: field-wise, i.e. element-wise on data.
GuidEq(g1, g2) ==
    /\ Len(g1.data) = Len(g2.data)
    /\ \A i \in 1..Len(g1.data) : g1.data[i] = g2.data[i]

\* Result<_, ParseError>, plus the panic a build with overflow checks raises.
ParseError == [kind |-> "Err"]

Panic == [kind |-> "Panic"]

NoResult == [kind |-> "None"]

NoWin == [Data1 |-> 0, Data2 |-> 0, Data3 |-> 0, Data4 |-> <<>>]

Zeros(k) == [i \in 1..k |-> 0]

\* s[from..] and s[from..to] of a Rust slice, 0-based, end exclusive.
Slice(s, from, to) == SubSeq(s, from + 1, to)

-----------------------------------------------------------------------------
(* Integer <-> big-endian bytes.  A u16 is a number in 0..65535.  A u32 is *)
(* held as its two 16-bit halves, [hi |-> h, lo |-> l] for h * 2^16 + l,   *)
(* so that every value of the type is representable.                       *)

U32(hi, lo) == [hi |-> hi, lo |-> lo]

u16_from_le_bytes(bs) == bs[2] * 256 + bs[1]

\* u16::from_be_bytes
u16_from_be_bytes(bs) == bs[1] * 256 + bs[2]

\* u32::from_be_bytes
u32_from_be_bytes(bs) == U32(bs[1] * 256 + bs[2], bs[3] * 256 + bs[4])

u16_to_le_bytes(x) == <<x % 256, x \div 256>>

\* u16::to_be_bytes
u16_to_be_bytes(x) == <<x \div 256, x % 256>>

\* u32::to_be_bytes
u32_to_be_bytes(x) == <<x.hi \div 256, x.hi % 256, x.lo \div 256, x.lo % 256>>

-----------------------------------------------------------------------------
(* Constructors and accessors.                                             *)

build_from_components_swapped(d1, d2, d3, d4) ==
    GUID(u32_to_be_bytes(d1) \o u16_to_be_bytes(d3) \o u16_to_be_bytes(d2) \o d4)

build_from_components(d1, d2, d3, d4) ==
    LET b1 == u32_to_be_bytes(d1)
        b2 == u16_to_be_bytes(d2)
        b3 == u16_to_be_bytes(d3)
    IN  GUID(<<b1[1], b1[2], b1[3], b1[4],
               b2[1], b2[2],
               b3[1], b3[2],
               d4[1], d4[2], d4[3], d4[4], d4[5], d4[6], d4[7], d4[8]>>)

build_from_slice(data) == GUID(data)

data1(g) == u32_from_be_bytes(Slice(g.data, 0, 4))

data2(g) == u16_from_be_bytes(Slice(g.data, 4, 6))

data3_copy_paste(g) == u16_from_be_bytes(Slice(g.data, 4, 6))

data3(g) == u16_from_be_bytes(Slice(g.data, 6, 8))

data4(g) == Slice(g.data, 8, 16)

as_winapi_guid(g) ==
    [Data1 |-> data1(g), Data2 |-> data2(g), Data3 |-> data3(g), Data4 |-> data4(g)]

from_winapi_guid(w) ==
    build_from_components(w.Data1, w.Data2, w.Data3, w.Data4)

-----------------------------------------------------------------------------
(* Display: "{:08X}-{:04X}-{:04X}-{:04X}-{:08X}{:04X}".                    *)

\* One digit of {:X}: 0-9 then A-F.
UpperHexDigit(d) == IF d < 10 THEN 48 + d ELSE 55 + d

\* {:X} of a u16: the digits in base 16, most significant first, no padding.
RECURSIVE UpperHex(_)
UpperHex(x) ==
    IF x < 16 THEN <<UpperHexDigit(x)>>
    ELSE UpperHex(x \div 16) \o <<UpperHexDigit(x % 16)>>

\* '0' repeated up to width, then the digits.
ZeroPad(digits, width) ==
    IF Len(digits) >= width THEN digits
    ELSE [i \in 1..(width - Len(digits)) |-> 48] \o digits

\* {:X} of a u32: the digits of hi * 2^16 + lo; below 2^16 those of lo, and
\* otherwise those of hi followed by all four digits of lo.
UpperHex32(x) ==
    IF x.hi = 0 THEN UpperHex(x.lo)
    ELSE UpperHex(x.hi) \o ZeroPad(UpperHex(x.lo), 4)

Fmt04X_unpadded(x) == UpperHex(x)

\* {:04X} of a u16
Fmt04X(x) == ZeroPad(UpperHex(x), 4)

\* {:08X} of a u32
Fmt08X(x) == ZeroPad(UpperHex32(x), 8)

to_string(g) ==
    Fmt08X(data1(g)) \o <<45>> \o
    Fmt04X(data2(g)) \o <<45>> \o
    Fmt04X(data3(g)) \o <<45>> \o
    Fmt04X(u16_from_be_bytes(Slice(g.data, 8, 10))) \o <<45>> \o
    Fmt08X(u32_from_be_bytes(Slice(g.data, 10, 14))) \o
    Fmt04X(u16_from_be_bytes(Slice(g.data, 14, 16)))

-----------------------------------------------------------------------------
(* GUID::parse and its local functions.  overflow_checks is the build's    *)
(* setting: with it an overflowing u8 operation panics, without it wraps.  *)

n_no_lower_offset(ch) ==
    IF ch \in 48..57 THEN [kind |-> "Ok", val |-> ch - 48]
    ELSE IF ch \in 65..70 THEN [kind |-> "Ok", val |-> ch - 55]
    ELSE IF ch \in 97..102 THEN [kind |-> "Ok", val |-> ch - 97]
    ELSE ParseError

n(ch) ==
    IF ch \in 48..57 THEN [kind |-> "Ok", val |-> ch - 48]
    ELSE IF ch \in 65..70 THEN [kind |-> "Ok", val |-> ch - 55]
    ELSE IF ch \in 97..102 THEN [kind |-> "Ok", val |-> ch - 87]
    ELSE ParseError

MulAdd_low_first(a, b, overflow_checks) ==
    IF a + b * 16 <= 255 THEN [kind |-> "Ok", val |-> a + b * 16]
    ELSE IF overflow_checks THEN Panic
    ELSE [kind |-> "Ok", val |-> (a + b * 16) % 256]

\* a * 16 + b in u8
MulAdd(a, b, overflow_checks) ==
    IF a * 16 + b <= 255 THEN [kind |-> "Ok", val |-> a * 16 + b]
    ELSE IF overflow_checks THEN Panic
    ELSE [kind |-> "Ok", val |-> (a * 16 + b) % 256]

\* hexbyte that indexes s[0] and s[1] without matching on the length.
hexbyte_unchecked(s, overflow_checks) ==
    IF Len(s) < 2 THEN Panic
    ELSE LET a == n(s[1])
             b == n(s[2])
         IN  IF a.kind # "Ok" THEN a
             ELSE IF b.kind # "Ok" THEN b
             ELSE LET x == MulAdd(a.val, b.val, overflow_checks)
                  IN  IF x.kind # "Ok" THEN x
                      ELSE [kind |-> "Ok", val |-> x.val, tail |-> Slice(s, 2, Len(s))]

hexbyte(s, overflow_checks) ==
    IF Len(s) >= 2
    THEN LET a == n(s[1])
         IN  IF a.kind # "Ok" THEN a
             ELSE LET b == n(s[2])
                  IN  IF b.kind # "Ok" THEN b
                      ELSE LET x == MulAdd(a.val, b.val, overflow_checks)
                           IN  IF x.kind # "Ok" THEN x
                               ELSE [kind |-> "Ok", val |-> x.val,
                                     tail |-> Slice(s, 2, Len(s))]
    ELSE ParseError

strip_dash_any(s) ==
    IF Len(s) >= 1 THEN [kind |-> "Ok", tail |-> Slice(s, 1, Len(s))]
    ELSE ParseError

strip_dash(s) ==
    IF Len(s) >= 1 /\ s[1] = 45 THEN [kind |-> "Ok", tail |-> Slice(s, 1, Len(s))]
    ELSE ParseError

\* fill(&mut data[from..to], s): one hexbyte per element, in order; the
\* result carries the array as written so far and the rest of the input.
RECURSIVE fill(_, _, _, _, _)
fill(data, from, to, s, overflow_checks) ==
    IF from >= to THEN [kind |-> "Ok", data |-> data, s |-> s]
    ELSE LET h == hexbyte(s, overflow_checks)
         IN  IF h.kind # "Ok" THEN h
             ELSE fill([data EXCEPT ![from + 1] = h.val], from + 1, to, h.tail,
                       overflow_checks)

\* `s = fill(&mut data[from..to], s)?;` after the steps that produced r.
ThenFill(r, from, to, overflow_checks) ==
    IF r.kind # "Ok" THEN r ELSE fill(r.data, from, to, r.s, overflow_checks)

\* `s = strip_dash(s)?;` after the steps that produced r.
ThenStripDash(r) ==
    IF r.kind # "Ok" THEN r
    ELSE LET d == strip_dash(r.s)
         IN  IF d.kind # "Ok" THEN d ELSE [r EXCEPT !.s = d.tail]

\* The scan of parse up to and including the trailing bytes.
Scan(str, overflow_checks) ==
    LET oc == overflow_checks
        r0 == [kind |-> "Ok", data |-> Zeros(16), s |-> str]
        r1 == ThenStripDash(ThenFill(r0, 0, 4, oc))
        r2 == ThenStripDash(ThenFill(r1, 4, 6, oc))
        r3 == ThenStripDash(ThenFill(r2, 6, 8, oc))
        r4 == ThenStripDash(ThenFill(r3, 8, 10, oc))
    IN  ThenFill(r4, 10, 16, oc)

parse_no_empty_check(str, overflow_checks) ==
    LET r == Scan(str, overflow_checks)
    IN  IF r.kind # "Ok" THEN r ELSE [kind |-> "Ok", guid |-> GUID(r.data)]

parse(str, overflow_checks) ==
    LET r == Scan(str, overflow_checks)
    IN  IF r.kind # "Ok" THEN r
        ELSE IF r.s = <<>> THEN [kind |-> "Ok", guid |-> GUID(r.data)]
        ELSE ParseError

-----------------------------------------------------------------------------
(* Inputs.  Every 16-byte array is a GUID and every UTF-8 string may be    *)
(* handed to parse; the sets below are the ones the model draws from.      *)

\* 87 93 5C DE 70 94 4C 2B A0 F4 DD 7D 51 2D D2 61, the bytes of the examples.
ExampleBytes ==
    <<135, 147, 92, 222, 112, 148, 76, 43, 160, 244, 221, 125, 81, 45, 210, 97>>

\* "87935CDE-7094-4C2B-A0F4-DD7D512DD261"
ExampleString ==
    <<56, 55, 57, 51, 53, 67, 68, 69, 45, 55, 48, 57, 52, 45, 52, 67, 50, 66,
      45, 65, 48, 70, 52, 45, 68, 68, 55, 68, 53, 49, 50, 68, 68, 50, 54, 49>>

\* 00, 09, 0A, 0F, 10, 99, 9A, FF: the digits change class around these.
ByteSamples == {0, 9, 10, 15, 16, 153, 154, 255}

\* Arrays for build_from_slice: the example, the example with one byte
\* replaced, and every byte value repeated sixteen times.
SliceInputs ==
    {ExampleBytes}
    \cup {[i \in 1..16 |-> v] : v \in Byte}
    \cup {[ExampleBytes EXCEPT ![p] = v] : p \in 1..16, v \in ByteSamples}

\* Arrays rand::random() may return.
RandInputs ==
    {[i \in 1..16 |-> (a * i + b) % 256] : a \in {7, 85}, b \in {0, 3, 100, 250}}

\* 0, 500, 0x0000FFFF, 0x00010000, 0x87935CDE, 0xFFFFFFFF
D1Inputs ==
    {U32(0, 0), U32(0, 500), U32(0, 65535), U32(1, 0), U32(34707, 23774),
     U32(65535, 65535)}

\* 0, 600, 0x00FF, 0x7094, 0xFFFF
D2Inputs == {0, 600, 255, 28820, 65535}

\* 0, 700, 0x4C2B, 0xFF00
D3Inputs == {0, 700, 19499, 65280}

D4Inputs == {Slice(ExampleBytes, 8, 16), <<0, 1, 2, 3, 252, 253, 254, 255>>}

\* Characters as their UTF-8 bytes: '-', '0', 'F', 'g', and U+00E9 (2 bytes).
RawChars == {<<45>>, <<48>>, <<70>>, <<103>>, <<195, 169>>}

\* Characters spliced into a well-formed string: '-', '0', 'f', the
\* neighbours of the digit ranges '/', ':', '@', 'G', '`', 'g', then ' ',
\* '{', '}', a line feed, and U+00E9.
EditChars ==
    {<<45>>, <<48>>, <<102>>, <<47>>, <<58>>, <<64>>, <<71>>, <<96>>, <<103>>,
     <<32>>, <<123>>, <<125>>, <<10>>, <<195, 169>>}

\* Characters appended after a well-formed string: ' ', '}', '0', '-'.
TailChars == {<<32>>, <<125>>, <<48>>, <<45>>}

RECURSIVE Strings(_, _)
\* The strings of at most k characters of chars.
Strings(chars, k) ==
    IF k = 0 THEN {<<>>}
    ELSE LET shorter == Strings(chars, k - 1)
         IN  shorter \cup {s \o c : s \in shorter, c \in chars}

\* base with the k bytes from position p on replaced by c.
Splice(base, p, k, c) ==
    SubSeq(base, 1, p - 1) \o c \o SubSeq(base, p + k, Len(base))

Spliced(base) ==
    {Splice(base, p, k, c) :
        p \in 1..(Len(base) + 1), k \in 0..2, c \in EditChars \cup {<<>>}}

Prefixes(base) == {SubSeq(base, 1, k) : k \in 0..Len(base)}

\* What quickcheck's String may be, as far as the model goes: short strings
\* of any characters, and the example string cut, edited or repeated.
ArbitraryStrings ==
    Strings(RawChars, MaxRawLen)
    \cup Spliced(ExampleString)
    \cup Prefixes(ExampleString)
    \cup {ExampleString \o ExampleString,
          ExampleString \o <<45>> \o ExampleString}

Tails == Strings(TailChars, MaxTail) \ {<<>>}

\* s with the letters A-F at the positions of P in lower case.
LowerAt(s, P) ==
    [i \in 1..Len(s) |-> IF i \in P /\ s[i] \in 65..70 THEN s[i] + 32 ELSE s[i]]

\* Which positions a caller writes in lower case: all, the odd ones, the
\* first group.
RecasePositions == {1..36, {i \in 1..36 : i % 2 = 1}, 1..8}

-----------------------------------------------------------------------------
(* The state: a caller that builds an identifier, reads it, formats it,    *)
(* and parses strings, one call at a time.                                 *)

NotMade == [by |-> "none"]

NoOrigin == [kind |-> "none"]

NoFields == [d1 |-> U32(0, 0), d2 |-> 0, d3 |-> 0, d4 |-> <<>>]

Init ==
    /\ pc = "start"
    /\ guid = NoGuid
    /\ made = NotMade
    /\ text = <<>>
    /\ origin = NoOrigin
    /\ res = NoResult
    /\ fields = NoFields
    /\ win = NoWin

\* GUID::build_from_slice(&data): the result is the identifier at hand.
BuildFromSlice ==
    /\ pc = "start"
    /\ pc' = "built"
    /\ \E data \in SliceInputs :
        /\ guid' = build_from_slice(data)
        /\ made' = [by |-> "build_from_slice", data |-> data]
    /\ UNCHANGED <<text, origin, res, fields, win>>

\* GUID::build_from_components(d1, d2, d3, &d4)
BuildFromComponents ==
    /\ pc = "start"
    /\ pc' = "built"
    /\ \E d1 \in D1Inputs, d2 \in D2Inputs, d3 \in D3Inputs, d4 \in D4Inputs :
        /\ guid' = build_from_components(d1, d2, d3, d4)
        /\ made' = [by |-> "build_from_components",
                    d1 |-> d1, d2 |-> d2, d3 |-> d3, d4 |-> d4]
    /\ UNCHANGED <<text, origin, res, fields, win>>

\* GUID::rand()
Rand ==
    /\ pc = "start"
    /\ pc' = "built"
    /\ \E data \in RandInputs : guid' = GUID(data)
    /\ made' = [by |-> "rand"]
    /\ UNCHANGED <<text, origin, res, fields, win>>

\* guid.data1(), guid.data2(), guid.data3(), guid.data4()
ReadFields ==
    /\ pc = "built"
    /\ pc' = "read"
    /\ fields' = [d1 |-> data1(guid), d2 |-> data2(guid),
                  d3 |-> data3(guid), d4 |-> data4(guid)]
    /\ UNCHANGED <<guid, made, text, origin, res, win>>

AsWinapiGuid ==
    /\ pc = "read"
    /\ pc' = "viewed"
    /\ win' = as_winapi_guid(guid)
    /\ UNCHANGED <<guid, made, text, origin, res, fields>>

FromWinapiGuid ==
    /\ pc = "viewed"
    /\ pc' = "converted"
    /\ guid' = from_winapi_guid(win)
    /\ made' = [by |-> "from_winapi_guid", of |-> guid]
    /\ UNCHANGED <<text, origin, res, fields, win>>

\* guid.to_string()
ToString ==
    /\ pc \in {"built", "parsed"}
    /\ guid # NoGuid
    /\ pc' = "formatted"
    /\ text' = to_string(guid)
    /\ origin' = [kind |-> "to_string", of |-> guid]
    /\ res' = NoResult
    /\ UNCHANGED <<guid, made, fields, win>>

\* The caller rewrites the formatted string with letters in lower case.
Recase ==
    /\ pc = "formatted"
    /\ origin.kind = "to_string"
    /\ \E P \in RecasePositions :
        /\ LowerAt(text, P) # text
        /\ text' = LowerAt(text, P)
    /\ pc' = "text"
    /\ origin' = [kind |-> "recased", of |-> origin.of, base |-> text]
    /\ UNCHANGED <<guid, made, res, fields, win>>

\* The caller appends characters to a string that parsed.
AppendTail ==
    /\ pc = "parsed"
    /\ res.kind = "Ok"
    /\ \E t \in Tails : text' = text \o t
    /\ pc' = "text"
    /\ origin' = [kind |-> "appended", base |-> text]
    /\ res' = NoResult
    /\ UNCHANGED <<guid, made, fields, win>>

\* The caller comes with a string of its own.
Arbitrary ==
    /\ pc = "start"
    /\ \E s \in ArbitraryStrings : text' = s
    /\ pc' = "text"
    /\ origin' = [kind |-> "arbitrary"]
    /\ UNCHANGED <<guid, made, res, fields, win>>

\* GUID::parse(text), in a build with or without overflow checks.
Parse ==
    /\ pc \in {"formatted", "text"}
    /\ pc' = "parsed"
    /\ \E overflow_checks \in BOOLEAN :
        res' = parse(text, overflow_checks)
    /\ guid' = IF res'.kind = "Ok" THEN res'.guid ELSE NoGuid
    /\ made' = IF res'.kind = "Ok" THEN [by |-> "parse", s |-> text] ELSE NotMade
    /\ UNCHANGED <<text, origin, fields, win>>

Next ==
    \/ BuildFromSlice
    \/ BuildFromComponents
    \/ Rand
    \/ ReadFields
    \/ AsWinapiGuid
    \/ FromWinapiGuid
    \/ ToString
    \/ Recase
    \/ AppendTail
    \/ Arbitrary
    \/ Parse

Spec == Init /\ [][Next]_vars

-----------------------------------------------------------------------------
(* What the properties are stated with.  None of this is computed the way  *)
(* the program computes it: the grammar is a predicate on positions, the   *)
(* digits come from a table, and the rendering goes byte by byte.          *)

HexChars == (48..57) \cup (65..70) \cup (97..102)

DashPositions == {9, 14, 19, 24}

\* HEX{8} "-" HEX{4} "-" HEX{4} "-" HEX{4} "-" HEX{12}
Canonical(s) ==
    /\ Len(s) = 36
    /\ \A i \in 1..36 :
        IF i \in DashPositions THEN s[i] = 45 ELSE s[i] \in HexChars

\* "0123456789ABCDEF"
HexTable == <<48, 49, 50, 51, 52, 53, 54, 55, 56, 57, 65, 66, 67, 68, 69, 70>>

\* The value of a hex digit: its place in the table, whatever its case.
HexVal(ch) ==
    CHOOSE v \in 0..15 :
        \/ HexTable[v + 1] = ch
        \/ (ch \in 97..102 /\ HexTable[v + 1] = ch - 32)

TwoDigits(b) == <<HexTable[(b \div 16) + 1], HexTable[(b % 16) + 1]>>

\* Bytes 0..15 in storage order, two digits each, '-' after bytes 3, 5, 7, 9.
ByteWise(g) ==
    LET d(i) == TwoDigits(g.data[i + 1])
    IN  d(0) \o d(1) \o d(2) \o d(3) \o <<45>> \o
        d(4) \o d(5) \o <<45>> \o
        d(6) \o d(7) \o <<45>> \o
        d(8) \o d(9) \o <<45>> \o
        d(10) \o d(11) \o d(12) \o d(13) \o d(14) \o d(15)

\* s with every a-f replaced by A-F.
Uppercased(s) ==
    [i \in 1..Len(s) |-> IF s[i] \in 97..102 THEN s[i] - 32 ELSE s[i]]

\* Where the k-th pair of hex digits (k = 1..16) starts in a canonical string.
PairStart(k) ==
    2 * k - 1 + (IF k > 4 THEN 1 ELSE 0) + (IF k > 6 THEN 1 ELSE 0)
              + (IF k > 8 THEN 1 ELSE 0) + (IF k > 10 THEN 1 ELSE 0)

\* The fields the big-endian layout gives the array b.
FieldsOf(b) ==
    [d1 |-> U32(b[1] * 256 + b[2], b[3] * 256 + b[4]),
     d2 |-> b[5] * 256 + b[6],
     d3 |-> b[7] * 256 + b[8],
     d4 |-> SubSeq(b, 9, 16)]

\* The array the big-endian layout gives the fields.
BytesOf(d1, d2, d3, d4) ==
    <<d1.hi \div 256, d1.hi % 256, d1.lo \div 256, d1.lo % 256,
      d2 \div 256, d2 % 256, d3 \div 256, d3 % 256>> \o d4

-----------------------------------------------------------------------------
(* Properties.                                                             *)

\* C1: parsing the string to_string gave for an identifier succeeds and
\* returns an identifier equal to it, all sixteen bytes.
C1_RoundTrip ==
    (pc = "parsed" /\ origin.kind = "to_string")
        => (res.kind = "Ok" /\ GuidEq(res.guid, origin.of))

C1_Witness ==
    /\ pc = "parsed"
    /\ origin.kind = "to_string"
    /\ origin.of = GUID(ExampleBytes)
    /\ res.kind = "Ok"

\* C2: parse returns Ok exactly for the strings of 36 bytes with '-' at
\* indices 8, 13, 18, 23 and hex digits elsewhere, and ParseError for every
\* other string.
C2_ParseAcceptsExactlyGrammar ==
    pc = "parsed"
        => /\ (res.kind = "Ok") <=> Canonical(text)
           /\ ~Canonical(text) => res = ParseError

C2_Witness ==
    /\ pc = "parsed"
    /\ res = ParseError
    /\ Len(text) = 36
    /\ text[9] # 45
    /\ \A i \in 1..36 \ {9} : text[i] = ExampleString[i]

\* C3: whatever the string and the build, parse ends with Ok or with
\* Err(ParseError), never with a panic.
C3_ParseNeverPanics ==
    pc = "parsed" => res.kind \in {"Ok", "Err"}

C3_Witness ==
    /\ pc = "parsed"
    /\ Len(text) > 36
    /\ \E i \in 1..Len(text) : text[i] > 127
    /\ res = ParseError

\* C4: to_string gives the sixteen bytes in storage order as two upper-case
\* hex digits each with '-' after bytes 3, 5, 7 and 9: 36 characters, none
\* of them a lower-case digit.
C4_FormatIsByteWise ==
    pc = "formatted"
        => /\ text = ByteWise(origin.of)
           /\ Len(text) = 36
           /\ \A i \in 1..Len(text) : text[i] \notin 97..102

C4_Witness ==
    /\ pc = "formatted"
    /\ origin.of = GUID([i \in 1..16 |-> 10])
    /\ Len(text) = 36

\* C5: the accessors of build_from_components(d1, d2, d3, d4) return d1,
\* d2, d3 and d4.
C5_ComponentSymmetry ==
    (pc = "read" /\ made.by = "build_from_components")
        => /\ fields.d1 = made.d1
           /\ fields.d2 = made.d2
           /\ fields.d3 = made.d3
           /\ fields.d4 = made.d4

C5_Witness ==
    /\ pc = "read"
    /\ made.by = "build_from_components"
    /\ made.d1 = U32(34707, 23774)
    /\ made.d2 = 600
    /\ fields.d2 = 600

\* C6: build_from_slice(b) equals build_from_components of the big-endian
\* fields of b, and build_from_components(d1, d2, d3, d4) equals
\* build_from_slice of the big-endian bytes of the fields; equal means the
\* sixteen stored bytes are equal.
C6_ConstructorEquivalence ==
    /\ (pc = "built" /\ made.by = "build_from_slice")
         => LET f == FieldsOf(made.data)
                g == build_from_components(f.d1, f.d2, f.d3, f.d4)
            IN  /\ GuidEq(guid, g)
                /\ \A i \in 1..16 : g.data[i] = made.data[i]
    /\ (pc = "built" /\ made.by = "build_from_components")
         => LET b == BytesOf(made.d1, made.d2, made.d3, made.d4)
            IN  /\ GuidEq(guid, build_from_slice(b))
                /\ \A i \in 1..16 : guid.data[i] = b[i]

C6_Witness ==
    /\ pc = "built"
    /\ made.by = "build_from_slice"
    /\ made.data = ExampleBytes
    /\ GuidEq(guid, build_from_components(U32(34707, 23774), 28820, 19499,
                                          SubSeq(ExampleBytes, 9, 16)))

\* C7: formatting the identifier parsed from a string gives that string
\* with a-f replaced by A-F, and a string that differs from a formatted one
\* only in letter case parses to the identifier that was formatted.
C7_Canonicalisation ==
    /\ (pc = "formatted" /\ made.by = "parse") => text = Uppercased(made.s)
    /\ (pc = "parsed" /\ origin.kind = "recased")
         => (res.kind = "Ok" /\ GuidEq(res.guid, origin.of))

C7_Witness ==
    /\ pc = "formatted"
    /\ made.by = "parse"
    /\ made.s # text
    /\ \E i \in 1..Len(made.s) : made.s[i] \in 97..102

\* C8: a string that parsed, followed by any non-empty tail, yields
\* ParseError.
C8_TrailingDataRejected ==
    (pc = "parsed" /\ origin.kind = "appended") => res = ParseError

C8_Witness ==
    /\ pc = "parsed"
    /\ origin.kind = "appended"
    /\ Len(text) > Len(origin.base)
    /\ text[Len(text)] = 48
    /\ res = ParseError

\* C9: as_winapi_guid carries data1() .. data4(), and from_winapi_guid of
\* it (build_from_components of the four accessors) equals the identifier.
C9_AccessorsInvertConstructor ==
    pc = "converted"
        => /\ GuidEq(guid, made.of)
           /\ win.Data1 = fields.d1
           /\ win.Data2 = fields.d2
           /\ win.Data3 = fields.d3
           /\ win.Data4 = fields.d4

C9_Witness ==
    /\ pc = "converted"
    /\ made.by = "from_winapi_guid"
    /\ made.of = GUID(ExampleBytes)
    /\ win.Data3 = 19499

\* C10: in a string that parsed, n gives every hex digit its value in
\* 0..15, and byte k of the result is 16 times the value of the first digit
\* of the k-th pair plus the value of the second, a number in 0..255.
C10_HexPairDecoding ==
    (pc = "parsed" /\ res.kind = "Ok")
        => /\ \A i \in (1..Len(text)) \ DashPositions :
                /\ n(text[i]).kind = "Ok"
                /\ n(text[i]).val = HexVal(text[i])
                /\ n(text[i]).val \in 0..15
           /\ \A k \in 1..16 :
                /\ res.guid.data[k] =
                       HexVal(text[PairStart(k)]) * 16 + HexVal(text[PairStart(k) + 1])
                /\ res.guid.data[k] \in 0..255

C10_Witness ==
    /\ pc = "parsed"
    /\ res.kind = "Ok"
    /\ \E i \in 1..Len(text) : text[i] \in 97..102
    /\ \E i \in 1..Len(text) : text[i] \in 65..70
    /\ \E i \in 1..Len(text) : text[i] \in 48..57

====
